---- MODULE Spec2Model ----
(***************************************************************************)
(* The annotation server of src/app.py with the task of src/tasks.py: the  *)
(* start-up probe that fills BAD_STIMULI (check_all_stimuli), the          *)
(* navigation functions (get_first_valid_stimulus,                         *)
(* get_next_valid_stimulus) and the request handlers (index, task_start,   *)
(* annotate, submit, next_unfilled).                                       *)
(*                                                                         *)
(* Strings are sequences of one-character strings, so that int(), zfill()  *)
(* and the f"{n:05d}" format are computed and not assumed.                 *)
(***************************************************************************)
EXTENDS Integers, Sequences, FiniteSets, TLC

\* ------------------------------------------------------------------ bounds
\* Number of stimuli (mp4 files) of the task in a serving run.
MaxStimuli == 3
\* Number of stimuli of the task in a probing run (more than max_workers).
MaxProbed == 5
\* Rows the result store holds in total.
MaxRows == 2
\* Starts of the process in a run
MaxStarts == 3

\* ------------------------------------------------------- program constants
\* ThreadPoolExecutor(max_workers=4)
max_workers == 4
\* check_stimulus(..., timeout=10)
check_timeout == 10
\* future.result(timeout=15)
result_timeout == 15
\* f"{i:05d}", zfill(5)
id_width == 5

\* ----------------------------------------------------------------- strings
Digits == <<"0", "1", "2", "3", "4", "5", "6", "7", "8", "9">>

IsDigit(c) == \E d \in 1..10 : Digits[d] = c

DigitVal(c) == (CHOOSE d \in 1..10 : Digits[d] = c) - 1

\* Python's int(s) raises ValueError on these strings (no digit, or a
\* character that is no digit; the strings here hold no sign or blank).
IntRaises(s) == Len(s) = 0 \/ \E i \in 1..Len(s) : ~IsDigit(s[i])

RECURSIVE IntOf(_)
\* Python's int(s) for a string of digits.
IntOf(s) ==
    IF Len(s) = 0 THEN 0
    ELSE 10 * IntOf(SubSeq(s, 1, Len(s) - 1)) + DigitVal(s[Len(s)])

RECURSIVE DecStr(_)
\* str(n) for n >= 0.
DecStr(n) ==
    IF n < 10 THEN <<Digits[n + 1]>>
    ELSE DecStr(n \div 10) \o <<Digits[(n % 10) + 1]>>

RECURSIVE zfill(_, _)
\* s.zfill(w): zeros on the left up to width w, never a cut.
zfill(s, w) == IF Len(s) >= w THEN s ELSE zfill(<<"0">> \o s, w)

\* f"{n:05d}"
Fmt05(n) == zfill(DecStr(n), id_width)

\* None, and every other falsy string: the handlers test "if not next_valid".
None == << >>

\* ------------------------------------------------------------------- tasks
\* TASKS = {t.name: t for t in [CountSubjects()]}
TASKS == {"count_subjects"}

\* CountSubjects.stimuli: "stimulus_id" = f"{i:05d}" for i in range(len(files))
Stimuli(n) == [i \in 1..n |-> Fmt05(i - 1)]

\* The required options of CountSubjects.options
RequiredLabels == {"Number of Subjects"}

VARIABLES
    all_ids,      \* list(t.stimuli['stimulus_id']) of the one task
    bad_file,     \* bad_stimuli.txt: [exists, lines]
    BAD_STIMULI,  \* the global set
    pc,           \* position of the process: "start", the probe, "serving"
    futures,      \* check_all_stimuli: the executor's tasks, in loop order
    results,      \* results/<annotator>/<task>.csv: its stimulus_id column
    req,          \* the last request handled
    resp,         \* its response
    hist          \* the starts of the process: their number, the
                  \* check_stimulus calls of the current one, the start that
                  \* probed (0: none) and the set it computed

vars ==
    <<all_ids, bad_file, BAD_STIMULI, pc, futures, results, req, resp, hist>>

\* ------------------------------------------------------------ input domains
Annotators == {"ann1", "ann2"}

\* A stimulus that is in no sequence of the bounded runs.
ForeignId == Fmt05(MaxStimuli + MaxProbed)

\* What a client may put in the <stim_id> / <start_id> path segment: the
\* identifiers, one of no sequence, a short form and a word.
UrlIds ==
    {Fmt05(i) : i \in 0..(MaxStimuli - 1)}
        \cup {ForeignId, <<"1">>, <<"x">>}

\* Contents bad_stimuli.txt may have when a task of n stimuli starts.
FileSets(n) == SUBSET ({Fmt05(i) : i \in 0..(n - 1)} \cup {ForeignId})

TaskNames == {"count_subjects", "other"}

AnnotateInputs ==
    [task : {"count_subjects"}, stim_id : UrlIds]
        \cup [task : {"other"}, stim_id : {Fmt05(0)}]

\* The <stim_id> of the forms posted to submit: the first and the last
\* identifier, a short form and a word. They are the alphabet of the result
\* store.
SubmitIds == {Fmt05(0), Fmt05(MaxStimuli - 1), <<"1">>, <<"x">>}

\* The forms posted to submit: the accepted ones, and one of each rejection.
SubmitInputs ==
    [task : {"count_subjects"}, stim_id : SubmitIds, annotator : Annotators,
     answer : {"1"}, prev : BOOLEAN]
        \cup [task : {"other"}, stim_id : {Fmt05(0)}, annotator : {"ann1"},
              answer : {"1"}, prev : {FALSE}]
        \cup [task : {"count_subjects"}, stim_id : {Fmt05(0)},
              annotator : {""}, answer : {"1"}, prev : {FALSE}]
        \cup [task : {"count_subjects"}, stim_id : {Fmt05(0)},
              annotator : {"ann1"}, answer : {""}, prev : {FALSE}]

NextUnfilledInputs ==
    [task : {"count_subjects"}, stim_id : UrlIds, annotator : Annotators,
     scope : {"you", "any"}]
        \cup [task : {"other"}, stim_id : {Fmt05(0)}, annotator : {"ann1"},
              scope : {"you"}]
        \cup [task : {"count_subjects"}, stim_id : {Fmt05(0)},
              annotator : {""}, scope : {"you", "any"}]

\* ------------------------------------------------------- bad_stimuli.txt
CharOrd(c) == IF IsDigit(c) THEN DigitVal(c) ELSE 10

RECURSIVE StrLess(_, _)
\* Python's a < b on strings.
StrLess(a, b) ==
    IF Len(b) = 0 THEN FALSE
    ELSE IF Len(a) = 0 THEN TRUE
    ELSE IF a[1] # b[1] THEN CharOrd(a[1]) < CharOrd(b[1])
    ELSE StrLess(Tail(a), Tail(b))

RECURSIVE sorted(_)
\* sorted(S) of a set of strings.
sorted(S) ==
    IF S = {} THEN << >>
    ELSE LET m == CHOOSE x \in S : \A y \in S \ {x} : StrLess(x, y)
         IN  <<m>> \o sorted(S \ {m})

\* The characters str.strip() removes.
Whitespace == {" ", "\n", "\t", "\r"}

RECURSIVE lstrip(_)
lstrip(s) ==
    IF s # << >> /\ Head(s) \in Whitespace THEN lstrip(Tail(s)) ELSE s

RECURSIVE rstrip(_)
rstrip(s) ==
    IF s # << >> /\ s[Len(s)] \in Whitespace
    THEN rstrip(SubSeq(s, 1, Len(s) - 1))
    ELSE s

\* line.strip()
strip(s) == rstrip(lstrip(s))

\* f.write(f"{stim_id}\n") for each identifier of the sequence ids.
write_lines(ids) == [i \in 1..Len(ids) |-> ids[i] \o <<"\n">>]

\* save_bad_stimuli that writes the identifiers from the last to the first.
save_bad_stimuli_descending(bad) ==
    [exists |-> TRUE,
     lines |-> write_lines([i \in 1..Cardinality(bad) |->
                               sorted(bad)[Cardinality(bad) + 1 - i]])]

\* save_bad_stimuli: one identifier per line, sorted.
save_bad_stimuli(bad) == [exists |-> TRUE, lines |-> write_lines(sorted(bad))]

\* load_bad_stimuli that does not assign the global set.
load_bad_stimuli_keeps_set(f, bad) == bad

\* load_bad_stimuli: the set of the file's non-blank lines; the set is left
\* as it is when there is no file.
load_bad_stimuli(f, bad) ==
    IF f.exists
    THEN {strip(f.lines[i]) :
              i \in {j \in 1..Len(f.lines) : strip(f.lines[j]) # << >>}}
    ELSE bad

\* -------------------------------------------------------------- navigation
\* all_ids.index(x): the first position, 0-based; -1 stands for ValueError.
list_index(seq, x) ==
    IF \E i \in 1..Len(seq) : seq[i] = x
    THEN (CHOOSE i \in 1..Len(seq) :
              seq[i] = x /\ \A j \in 1..(i - 1) : seq[j] # x) - 1
    ELSE -1

RECURSIVE search(_, _, _, _)
\* while 0 <= idx < len(all_ids): ... idx += direction
search(ids, bad, idx, direction) ==
    IF ~(0 <= idx /\ idx < Len(ids)) THEN None
    ELSE IF ids[idx + 1] \notin bad THEN ids[idx + 1]
    ELSE search(ids, bad, idx + direction, direction)

\* get_next_valid_stimulus that takes index 0 for an identifier that is not
\* in the sequence.
get_next_valid_stimulus_from_zero(task, current_id, direction) ==
    IF task \notin TASKS THEN None
    ELSE LET found == list_index(all_ids, current_id)
             current_idx == IF found # -1 THEN found ELSE 0
         IN  search(all_ids, BAD_STIMULI, current_idx + direction, direction)

\* get_next_valid_stimulus whose loop steps by 1 whatever the direction.
get_next_valid_stimulus_forward_only(task, current_id, direction) ==
    IF task \notin TASKS THEN None
    ELSE LET found == list_index(all_ids, current_id)
             current_idx ==
                 IF found # -1 THEN found
                 ELSE IF direction = 1 THEN -1 ELSE Len(all_ids)
         IN  search(all_ids, BAD_STIMULI, current_idx + direction, 1)

\* get_next_valid_stimulus that wraps around at the boundary.
get_next_valid_stimulus_wrapping(task, current_id, direction) ==
    IF task \notin TASKS THEN None
    ELSE LET found == list_index(all_ids, current_id)
             current_idx ==
                 IF found # -1 THEN found
                 ELSE IF direction = 1 THEN -1 ELSE Len(all_ids)
             hit == search(all_ids, BAD_STIMULI, current_idx + direction,
                           direction)
         IN  IF hit # None THEN hit
             ELSE search(all_ids, BAD_STIMULI,
                         IF direction = 1 THEN 0 ELSE Len(all_ids) - 1,
                         direction)

get_next_valid_stimulus(task, current_id, direction) ==
    IF task \notin TASKS THEN None
    ELSE LET found == list_index(all_ids, current_id)
             current_idx ==
                 IF found # -1 THEN found
                 ELSE IF direction = 1 THEN -1 ELSE Len(all_ids)
         IN  search(all_ids, BAD_STIMULI, current_idx + direction, direction)

RECURSIVE first_from(_, _, _)
\* for stim_id in t.stimuli['stimulus_id']: if stim_id not in BAD_STIMULI
first_from(ids, bad, i) ==
    IF i > Len(ids) THEN None
    ELSE IF ids[i] \notin bad THEN ids[i]
    ELSE first_from(ids, bad, i + 1)

\* get_first_valid_stimulus that does not look at BAD_STIMULI.
get_first_valid_stimulus_unchecked(task) ==
    IF task \notin TASKS THEN None
    ELSE first_from(all_ids, {}, 1)

get_first_valid_stimulus(task) ==
    IF task \notin TASKS THEN None
    ELSE first_from(all_ids, BAD_STIMULI, 1)

\* --------------------------------------------------------------- responses
\* redirect(url_for('annotate', task=task, stim_id=id))
Redirect(task, id) ==
    [kind |-> "redirect", task |-> task, stim_id |-> id, status |-> 302,
     found |-> FALSE]
\* render_template("annotate.html", ..., stim_id=id, ...)
Page(task, id) ==
    [kind |-> "page", task |-> task, stim_id |-> id, status |-> 200,
     found |-> FALSE]
\* abort(code), or a body with a status code
Status(code, msg) ==
    [kind |-> msg, task |-> "", stim_id |-> None, status |-> code,
     found |-> FALSE]
\* redirect(url_for("thanks", annotator=annotator))
Thanks ==
    [kind |-> "thanks", task |-> "", stim_id |-> None, status |-> 302,
     found |-> FALSE]
\* jsonify({"found": ..., "stimulus_id": ..., "error": ...})
Json(found, id, msg) ==
    [kind |-> msg, task |-> "", stim_id |-> id, status |-> 200,
     found |-> found]
NoResponse ==
    [kind |-> "none", task |-> "", stim_id |-> None, status |-> 0,
     found |-> FALSE]

Request(op, task, id, annotator, prev, scope) ==
    [op |-> op, task |-> task, stim_id |-> id, annotator |-> annotator,
     prev |-> prev, scope |-> scope]
NoRequest == Request("none", "count_subjects", None, "", FALSE, "you")

\* ---------------------------------------------------------------- handlers
\* index(): TASKS is not empty, the first task is the one task.
index ==
    LET first_task == CHOOSE t \in TASKS : TRUE
        first_valid == get_first_valid_stimulus(first_task)
    IN  IF first_valid # None THEN Redirect(first_task, first_valid)
        ELSE Status(404, "No valid stimuli found")

task_start(task) ==
    IF task \in TASKS
    THEN LET first_valid == get_first_valid_stimulus(task)
         IN  IF first_valid # None THEN Redirect(task, first_valid)
             ELSE Status(404, "No valid stimuli found for this task")
    ELSE Status(404, "abort")

\* annotate without the redirect for bad stimuli.
annotate_no_bad_check(task, stim_id) ==
    IF task \notin TASKS THEN Status(404, "abort")
    ELSE IF list_index(all_ids, stim_id) = -1 THEN Status(404, "abort")
    ELSE Page(task, stim_id)

annotate(task, stim_id) ==
    IF task \notin TASKS THEN Status(404, "abort")
    ELSE IF stim_id \in BAD_STIMULI
    THEN LET next_valid == get_next_valid_stimulus(task, stim_id, 1)
         IN  IF next_valid # None THEN Redirect(task, next_valid)
             ELSE Status(404, "No more valid stimuli found")
    ELSE IF list_index(all_ids, stim_id) = -1 THEN Status(404, "abort")
    ELSE Page(task, stim_id)

\* Whether submit answers before writing, and with what.
submit_rejection(task, annotator, answer) ==
    IF task \notin TASKS THEN Status(404, "abort")
    ELSE IF annotator = "" THEN Status(400, "Annotator name required")
    ELSE IF \E l \in RequiredLabels : answer = ""
    THEN Status(400, "Missing required field")
    ELSE NoResponse

\* submit that treats a missing previous stimulus like a missing next one.
submit_navigation_no_stay(task, stim_id, prev) ==
    LET next_valid ==
            get_next_valid_stimulus(task, stim_id, IF prev THEN -1 ELSE 1)
    IN  IF next_valid = None THEN Thanks ELSE Redirect(task, next_valid)

\* "Determine next stimulus" of submit.
submit_navigation(task, stim_id, prev) ==
    IF prev
    THEN LET next_valid == get_next_valid_stimulus(task, stim_id, -1)
         IN  IF next_valid = None THEN Redirect(task, stim_id)
             ELSE Redirect(task, next_valid)
    ELSE LET next_valid == get_next_valid_stimulus(task, stim_id, 1)
         IN  IF next_valid = None THEN Thanks
             ELSE Redirect(task, next_valid)

\* submit that opens the file with "w": the new row is the only one.
submit_write_truncating(store, annotator, stim_id) ==
    [store EXCEPT ![annotator] = <<stim_id>>]

\* The rows submit leaves in results/<annotator>/<task>.csv (the header and
\* the first row are written together; only the stimulus_id column is read
\* by the program).
submit_write(store, annotator, stim_id) ==
    [store EXCEPT ![annotator] = Append(@, stim_id)]

\* int(sid) raises, tabulated over the path segments of the bounded runs.
int_raises == [s \in UrlIds |-> IntRaises(s)]

\* f"{int(sid):05d}", tabulated likewise.
int_05d == [s \in {u \in UrlIds : ~IntRaises(u)} |-> Fmt05(IntOf(s))]

\* The loop over df['stimulus_id'] with a try around each row: a row that is
\* not a number is passed over.
read_ids_every_row(rows, filled) ==
    filled \cup {int_05d[rows[i]] :
                     i \in {j \in 1..Len(rows) : ~int_raises[rows[j]]}}

RECURSIVE read_ids(_, _)
\* for sid in df['stimulus_id']: filled_ids.add(f"{int(sid):05d}"), inside a
\* try whose except only prints: the identifiers added before int() raises
\* stay in filled_ids.
read_ids(rows, filled) ==
    IF rows = << >> THEN filled
    ELSE IF int_raises[Head(rows)] THEN filled
    ELSE read_ids(Tail(rows), filled \cup {int_05d[Head(rows)]})

\* filled_ids that reads every annotator's file whatever the scope.
filled_ids_every_file(store, annotator, scope) ==
    UNION {read_ids(store[a], {}) : a \in DOMAIN store}

\* "Collect all filled stimulus IDs" of next_unfilled.
filled_ids(store, annotator, scope) ==
    IF scope = "you"
    THEN IF annotator \in DOMAIN store
         THEN read_ids(store[annotator], {})
         ELSE {}
    ELSE UNION {read_ids(store[a], {}) : a \in DOMAIN store}

RECURSIVE scan(_, _, _, _)
\* for i in range(i, stop): if all_ids[i] not in filled_ids and not in BAD
scan(ids, skip, i, stop) ==
    IF i >= stop THEN None
    ELSE IF ids[i + 1] \notin skip THEN ids[i + 1]
    ELSE scan(ids, skip, i + 1, stop)

\* "Convert start_id to proper format" of next_unfilled.
start_id_formatted(start_id) ==
    IF int_raises[start_id] THEN zfill(start_id, id_width)
    ELSE int_05d[start_id]

\* The search of next_unfilled without the second loop.
next_unfilled_search_no_wrap(ids, bad, filled, start_id) ==
    LET found == list_index(ids, start_id_formatted(start_id))
        start_idx == IF found # -1 THEN found ELSE 0
    IN  scan(ids, filled \cup bad, start_idx, Len(ids))

\* The search of next_unfilled, from the start index to the end and then
\* from 0 to the start index.
next_unfilled_search(ids, bad, filled, start_id) ==
    LET found == list_index(ids, start_id_formatted(start_id))
        start_idx == IF found # -1 THEN found ELSE 0
        ahead == scan(ids, filled \cup bad, start_idx, Len(ids))
    IN  IF ahead # None THEN ahead
        ELSE scan(ids, filled \cup bad, 0, start_idx)

next_unfilled(task, start_id, annotator, scope) ==
    IF task \notin TASKS THEN Status(404, "abort")
    ELSE IF annotator = "" THEN Json(FALSE, None, "No annotator specified")
    ELSE LET hit == next_unfilled_search(all_ids, BAD_STIMULI,
                        filled_ids(results, annotator, scope), start_id)
         IN  IF hit # None THEN Json(TRUE, hit, "json")
             ELSE Json(FALSE, None, "json")

\* ------------------------------------------------------- the start-up probe
\* What t.render_stimuli(row) does for one stimulus: the list it returns
\* ("frames": not empty, which is also what CountSubjects returns when the
\* video cannot be read; "empty"; "raise"), the seconds it takes (compared
\* with the two timeouts, nothing else), and whether it returns at all.
RenderOutcomes ==
    {[result |-> "frames", elapsed |-> 1, returns |-> TRUE],
     [result |-> "empty", elapsed |-> 1, returns |-> TRUE],
     [result |-> "raise", elapsed |-> 1, returns |-> TRUE],
     [result |-> "frames", elapsed |-> 12, returns |-> TRUE],
     [result |-> "frames", elapsed |-> 100, returns |-> TRUE],
     [result |-> "frames", elapsed |-> 100, returns |-> FALSE]}

\* check_stimulus, for a render call that returns.
check_stimulus(task, render, timeout) ==
    IF task \notin TASKS THEN FALSE
    ELSE IF render.result = "raise" THEN FALSE
    ELSE IF render.elapsed > timeout THEN FALSE
    ELSE IF render.result = "empty" THEN FALSE
    ELSE TRUE

\* Worker threads of the executor that hold a task.
busy(fs) == {i \in 1..Len(fs) : fs[i].status \in {"running", "resumed"}}

queued(fs) == {i \in 1..Len(fs) : fs[i].status = "queued"}

\* executor.submit: the task runs at once when a worker is free and waits in
\* the executor's queue otherwise.
executor_submit(fs, render) ==
    Append(fs, [status |-> IF Cardinality(busy(fs)) < max_workers
                           THEN "running" ELSE "queued",
                render |-> render])

\* A worker ends its task and takes the oldest queued one.
worker_done(fs, i) ==
    LET done == [fs EXCEPT ![i].status = "done"]
    IN  IF queued(fs) = {} THEN done
        ELSE LET n == CHOOSE q \in queued(fs) : \A r \in queued(fs) : q <= r
             IN  [done EXCEPT ![n].status = "resumed"]

\* Whether future.result(timeout=...) of task i can raise TimeoutError: the
\* task waits or waited for a worker, or its render call takes longer.
can_time_out(fs, i, timeout) ==
    /\ fs[i].status # "done"
    /\ \/ fs[i].status \in {"queued", "resumed"}
       \/ ~fs[i].render.returns
       \/ fs[i].render.elapsed > timeout

\* BAD_STIMULI after future.result() returned for the stimulus.
probe_result(bad, stim_id, result) ==
    IF ~result THEN bad \cup {stim_id} ELSE bad

\* The TimeoutError branch without BAD_STIMULI.add(stim_id).
probe_timeout_not_recorded(bad, stim_id) == bad

\* BAD_STIMULI after future.result() raised TimeoutError for the stimulus.
probe_timeout(bad, stim_id) == bad \cup {stim_id}

\* ------------------------------------------------------------------ states
TotalRows(store) ==
    LET RECURSIVE sum(_)
        sum(S) == IF S = {} THEN 0
                  ELSE LET a == CHOOSE x \in S : TRUE
                       IN  Len(store[a]) + sum(S \ {a})
    IN  sum(DOMAIN store)

InitCommon ==
    /\ BAD_STIMULI = {}
    /\ pc = "start"
    /\ futures = << >>
    /\ results = [a \in Annotators |-> << >>]
    /\ req = NoRequest
    /\ resp = NoResponse
    /\ hist = [starts |-> 1, checks |-> 0, probed |-> 0, computed |-> {}]

\* A start with bad_stimuli.txt in place.
InitServe ==
    /\ \E n \in 0..MaxStimuli :
           /\ all_ids = Stimuli(n)
           /\ \E S \in FileSets(n) : bad_file = save_bad_stimuli(S)
    /\ InitCommon

\* A start without bad_stimuli.txt.
InitProbe ==
    /\ \E n \in 0..MaxProbed : all_ids = Stimuli(n)
    /\ bad_file = [exists |-> FALSE, lines |-> << >>]
    /\ InitCommon

\* A start of a small task, with or without bad_stimuli.txt.
InitRun ==
    /\ \E n \in 0..MaxStimuli :
           /\ all_ids = Stimuli(n)
           /\ \/ bad_file = [exists |-> FALSE, lines |-> << >>]
              \/ \E S \in FileSets(n) : bad_file = save_bad_stimuli(S)
    /\ InitCommon

Init == InitServe \/ InitProbe

\* ----------------------------------------------------------------- actions
\* check_all_stimuli(), up to the loop: load and return, or start probing.
Startup ==
    /\ pc = "start"
    /\ IF bad_file.exists
       THEN /\ BAD_STIMULI' = load_bad_stimuli(bad_file, BAD_STIMULI)
            /\ pc' = "serving"
       ELSE /\ BAD_STIMULI' = BAD_STIMULI
            /\ pc' = "probe_loop"
    /\ UNCHANGED <<hist, all_ids, bad_file, futures, results, req, resp>>

\* future = executor.submit(check_stimulus, ...) for the next stimulus.
ProbeSubmit ==
    /\ pc = "probe_loop"
    /\ Len(futures) < Len(all_ids)
    /\ \E r \in RenderOutcomes : futures' = executor_submit(futures, r)
    /\ pc' = "probe_wait"
    /\ hist' = [hist EXCEPT !.checks = @ + 1]
    /\ UNCHANGED <<all_ids, bad_file, BAD_STIMULI, results, req, resp>>

\* A render call returns in its worker thread. A call that takes longer than
\* the wait of the main thread does not return while the main thread waits
\* for it.
TaskFinish ==
    /\ pc \in {"probe_loop", "probe_wait", "shutdown"}
    /\ \E i \in busy(futures) :
           /\ futures[i].render.returns
           /\ (pc = "probe_wait" /\ i = Len(futures))
                  => futures[i].render.elapsed <= result_timeout
           /\ futures' = worker_done(futures, i)
    /\ UNCHANGED <<hist, all_ids, bad_file, BAD_STIMULI, pc, results, req, resp>>

\* result = future.result(timeout=15) returns. (check_stimulus catches every
\* exception of the render call, so future.result raises TimeoutError only.)
ProbeResult ==
    /\ pc = "probe_wait"
    /\ futures[Len(futures)].status = "done"
    /\ BAD_STIMULI' =
           probe_result(BAD_STIMULI, all_ids[Len(futures)],
               check_stimulus("count_subjects", futures[Len(futures)].render,
                              check_timeout))
    /\ pc' = "probe_loop"
    /\ UNCHANGED <<hist, all_ids, bad_file, futures, results, req, resp>>

\* future.result(timeout=15) raises TimeoutError.
ProbeTimeout ==
    /\ pc = "probe_wait"
    /\ can_time_out(futures, Len(futures), result_timeout)
    /\ BAD_STIMULI' = probe_timeout(BAD_STIMULI, all_ids[Len(futures)])
    /\ pc' = "probe_loop"
    /\ UNCHANGED <<hist, all_ids, bad_file, futures, results, req, resp>>

\* The loop is over: the with block is left.
ProbeLoopEnd ==
    /\ pc = "probe_loop"
    /\ Len(futures) = Len(all_ids)
    /\ pc' = "shutdown"
    /\ UNCHANGED <<hist, all_ids, bad_file, BAD_STIMULI, futures, results, req, resp>>

\* ThreadPoolExecutor.__exit__: shutdown(wait=True) joins every worker.
ExecutorShutdown ==
    /\ pc = "shutdown"
    /\ \A i \in 1..Len(futures) : futures[i].status = "done"
    /\ pc' = "save"
    /\ UNCHANGED <<hist, all_ids, bad_file, BAD_STIMULI, futures, results, req, resp>>

\* save_bad_stimuli(), and check_all_stimuli returns.
SaveBad ==
    /\ pc = "save"
    /\ bad_file' = save_bad_stimuli(BAD_STIMULI)
    /\ futures' = << >>
    /\ pc' = "serving"
    /\ hist' = [hist EXCEPT !.probed = hist.starts, !.computed = BAD_STIMULI]
    /\ UNCHANGED <<all_ids, BAD_STIMULI, results, req, resp>>

\* GET /
ReqIndex ==
    /\ pc = "serving"
    /\ req' = Request("index", "", None, "", FALSE, "")
    /\ resp' = index
    /\ UNCHANGED <<hist, all_ids, bad_file, BAD_STIMULI, pc, futures, results>>

\* GET /<task>
ReqTaskStart ==
    /\ pc = "serving"
    /\ \E task \in TaskNames :
           /\ req' = Request("task_start", task, None, "", FALSE, "")
           /\ resp' = task_start(task)
    /\ UNCHANGED <<hist, all_ids, bad_file, BAD_STIMULI, pc, futures, results>>

\* annotate that adds the stimulus it is asked for to BAD_STIMULI.
ReqAnnotate_marks_bad ==
    /\ pc = "serving"
    /\ \E in \in AnnotateInputs :
           /\ req' = Request("annotate", in.task, in.stim_id, "", FALSE, "")
           /\ resp' = annotate(in.task, in.stim_id)
           /\ BAD_STIMULI' = BAD_STIMULI \cup {in.stim_id}
    /\ UNCHANGED <<hist, all_ids, bad_file, pc, futures, results>>

\* GET /<task>/<stim_id>, typed or clicked
ReqAnnotate ==
    /\ pc = "serving"
    /\ \E in \in AnnotateInputs :
           /\ req' = Request("annotate", in.task, in.stim_id, "", FALSE, "")
           /\ resp' = annotate(in.task, in.stim_id)
    /\ UNCHANGED <<hist, all_ids, bad_file, BAD_STIMULI, pc, futures, results>>

\* GET /<task>/<stim_id>, by the client that follows a redirect
FollowRedirect ==
    /\ pc = "serving"
    /\ resp.kind = "redirect"
    /\ req' = Request("follow", resp.task, resp.stim_id, "", FALSE, "")
    /\ resp' = annotate(resp.task, resp.stim_id)
    /\ UNCHANGED <<hist, all_ids, bad_file, BAD_STIMULI, pc, futures, results>>

\* POST /submit/<task>/<stim_id>
ReqSubmit ==
    /\ pc = "serving"
    /\ \E in \in SubmitInputs :
           LET rejection == submit_rejection(in.task, in.annotator, in.answer)
           IN  IF rejection # NoResponse
               THEN /\ req' = Request("submit_rejected", in.task, in.stim_id,
                                      in.annotator, in.prev, "")
                    /\ resp' = rejection
                    /\ results' = results
               ELSE /\ TotalRows(results) < MaxRows
                    /\ req' = Request("submit", in.task, in.stim_id,
                                      in.annotator, in.prev, "")
                    /\ results' = submit_write(results, in.annotator,
                                               in.stim_id)
                    /\ resp' = submit_navigation(in.task, in.stim_id, in.prev)
    /\ UNCHANGED <<hist, all_ids, bad_file, BAD_STIMULI, pc, futures>>

\* GET / as the first request of an annotator.
TraverseStart ==
    /\ req = NoRequest
    /\ ReqIndex

\* POST /submit/<task>/<stim_id> of the page shown, without prev: the form
\* of annotate.html filled in by one annotator.
SubmitShown ==
    /\ pc = "serving"
    /\ resp.kind = "page"
    /\ Len(results["ann1"]) <= MaxStimuli
    /\ submit_rejection(resp.task, "ann1", "1") = NoResponse
    /\ req' = Request("submit", resp.task, resp.stim_id, "ann1", FALSE, "")
    /\ results' = submit_write(results, "ann1", resp.stim_id)
    /\ resp' = submit_navigation(resp.task, resp.stim_id, FALSE)
    /\ UNCHANGED <<hist, all_ids, bad_file, BAD_STIMULI, pc, futures>>

\* GET /next_unfilled/<task>/<start_id>?annotator=...&scope=...
ReqNextUnfilled ==
    /\ pc = "serving"
    /\ \E in \in NextUnfilledInputs :
           /\ req' = Request("next_unfilled", in.task, in.stim_id,
                             in.annotator, FALSE, in.scope)
           /\ resp' = next_unfilled(in.task, in.stim_id, in.annotator,
                                    in.scope)
    /\ UNCHANGED <<hist, all_ids, bad_file, BAD_STIMULI, pc, futures, results>>

\* The process ends and the module is loaded again: the globals are new, the
\* files are what they were.
Restart ==
    /\ pc = "serving"
    /\ hist.starts < MaxStarts
    /\ BAD_STIMULI' = {}
    /\ pc' = "start"
    /\ req' = NoRequest
    /\ resp' = NoResponse
    /\ hist' = [hist EXCEPT !.starts = @ + 1, !.checks = 0]
    /\ UNCHANGED <<all_ids, bad_file, futures, results>>

NextProbe ==
    \/ Startup
    \/ ProbeSubmit
    \/ TaskFinish
    \/ ProbeResult
    \/ ProbeTimeout
    \/ ProbeLoopEnd
    \/ ExecutorShutdown
    \/ SaveBad

NextServe ==
    \/ Startup
    \/ ReqIndex
    \/ ReqTaskStart
    \/ ReqAnnotate
    \/ FollowRedirect
    \/ ReqSubmit

NextFill ==
    \/ Startup
    \/ ReqSubmit
    \/ ReqNextUnfilled

\* An annotator who starts at / and submits every page shown.
NextTraverse ==
    \/ Startup
    \/ TraverseStart
    \/ FollowRedirect
    \/ SubmitShown

\* One life of the process.
NextRun == NextProbe \/ NextServe \/ NextFill

Next == NextRun \/ NextTraverse \/ Restart

\* The whole program.
Spec == Init /\ [][Next]_vars

\* One life of the process, for a small task.
SpecRun == InitRun /\ [][NextRun]_vars

\* The server started with bad_stimuli.txt in place: one annotator goes
\* through the task.
SpecTraverse == InitServe /\ [][NextTraverse]_vars

\* The start-up of a small task, again and again.
SpecRestart == InitRun /\ [][NextProbe \/ Restart]_vars

\* The start-up without bad_stimuli.txt, up to the first request.
SpecProbe == InitProbe /\ [][NextProbe]_vars

\* The server started with bad_stimuli.txt in place: the pages and submit.
SpecServe == InitServe /\ [][NextServe]_vars

\* The server started with bad_stimuli.txt in place: submit and next_unfilled.
SpecFill == InitServe /\ [][NextFill]_vars

\* ------------------------------------------------------------ the claims
\* Positions (1-based) of the stimuli that are not excluded.
ValidAt == {i \in 1..Len(all_ids) : all_ids[i] \notin BAD_STIMULI}

Min(S) == CHOOSE x \in S : \A y \in S : x <= y

Max(S) == CHOOSE x \in S : \A y \in S : y <= x

\* The response at the end of the redirects a client follows from r.
RECURSIVE landing(_, _)
landing(r, hops) ==
    IF r.kind = "redirect" /\ hops > 0
    THEN landing(annotate(r.task, r.stim_id), hops - 1)
    ELSE r

Landing(r) == landing(r, Len(all_ids) + 2)

IsNotFound(r) == r.status = 404

\* C1: get_first_valid_stimulus returns the stimulus of the smallest index
\* that is not in BAD_STIMULI, and None exactly when every stimulus of the
\* sequence is in BAD_STIMULI; index and task_start redirect to it, and
\* answer 404 when it is None.
C1_FirstValid ==
    LET first == get_first_valid_stimulus("count_subjects")
    IN  /\ (first = None) <=> (ValidAt = {})
        /\ ValidAt # {} => first = all_ids[Min(ValidAt)]
        /\ (req.op = "index" \/ (req.op = "task_start" /\ req.task \in TASKS))
               => resp = IF ValidAt = {}
                         THEN Status(404, resp.kind)
                         ELSE Redirect("count_subjects", all_ids[Min(ValidAt)])

\* index skipped an excluded first stimulus.
C1_Witness ==
    /\ req.op = "index"
    /\ resp.kind = "redirect"
    /\ Len(all_ids) >= 2
    /\ all_ids[1] \in BAD_STIMULI
    /\ resp.stim_id # all_ids[1]

\* C2: from the stimulus at index i, a forward step returns the stimulus of
\* the smallest index above i that is not excluded and a backward step the
\* one of the largest index below i; None when there is none (no wrap
\* around). A step never returns an excluded stimulus; a forward step never
\* returns one at index <= i.
C2_Step ==
    \A i \in 1..Len(all_ids) :
        LET fwd == get_next_valid_stimulus("count_subjects", all_ids[i], 1)
            bwd == get_next_valid_stimulus("count_subjects", all_ids[i], -1)
            above == {j \in ValidAt : j > i}
            below == {j \in ValidAt : j < i}
        IN  /\ fwd = IF above = {} THEN None ELSE all_ids[Min(above)]
            /\ bwd = IF below = {} THEN None ELSE all_ids[Max(below)]
            /\ fwd \notin BAD_STIMULI /\ bwd \notin BAD_STIMULI
            /\ (req.op = "submit" /\ req.stim_id = all_ids[i] /\ ~req.prev)
                   => resp = IF above = {} THEN Thanks
                             ELSE Redirect(req.task, all_ids[Min(above)])

\* A forward submit skipped an excluded stimulus.
C2_Witness ==
    /\ req.op = "submit"
    /\ ~req.prev
    /\ Len(all_ids) >= 3
    /\ req.stim_id = all_ids[1]
    /\ all_ids[2] \in BAD_STIMULI
    /\ resp = Redirect("count_subjects", all_ids[3])

\* C3: for a stimulus x of the sequence that is not excluded, when a forward
\* step from x returns y, a backward step from y returns x.
C3_ForwardBackward ==
    \A i \in ValidAt :
        LET y == get_next_valid_stimulus("count_subjects", all_ids[i], 1)
        IN  y # None =>
                get_next_valid_stimulus("count_subjects", y, -1) = all_ids[i]

\* A backward submit from y came back over an excluded stimulus to x, from
\* which a forward step leads to y.
C3_Witness ==
    /\ req.op = "submit"
    /\ req.prev
    /\ Len(all_ids) >= 3
    /\ req.stim_id = all_ids[3]
    /\ all_ids[2] \in BAD_STIMULI
    /\ resp = Redirect("count_subjects", all_ids[1])
    /\ get_next_valid_stimulus("count_subjects", all_ids[1], 1) = all_ids[3]

\* C6: no excluded stimulus is ever rendered: a page is a page of a stimulus
\* of the sequence that is not in BAD_STIMULI; a request for an excluded
\* stimulus is answered by a redirect to a stimulus that is not excluded (the
\* next one forward) or by 404; and the redirects that start at a submit end
\* at a page of a stimulus that is not excluded, at 404 or at thanks.
C6_NeverRendersExcluded ==
    /\ resp.kind = "page" => resp.stim_id \notin BAD_STIMULI
    /\ (req.op \in {"annotate", "follow"} /\ req.task \in TASKS
            /\ req.stim_id \in BAD_STIMULI)
           => LET at == {i \in 1..Len(all_ids) : all_ids[i] = req.stim_id}
                  after == {j \in ValidAt : \A i \in at : j > i}
              IN  resp = IF after = {}
                         THEN Status(404, "No more valid stimuli found")
                         ELSE Redirect(req.task, all_ids[Min(after)])
    /\ req.op = "submit"
           => LET end == Landing(resp)
              IN  \/ end.kind = "page" /\ end.stim_id \notin BAD_STIMULI
                  \/ IsNotFound(end)
                  \/ end = Thanks

\* A request for an excluded stimulus was redirected forward.
C6_Witness ==
    /\ req.op = "annotate"
    /\ req.stim_id \in BAD_STIMULI
    /\ Len(all_ids) >= 2
    /\ req.stim_id = all_ids[1]
    /\ resp.kind = "redirect"

\* C7: after an accepted backward submit from c with no stimulus before c
\* that is not excluded: when c is a stimulus of the sequence that is not
\* excluded, the answer is a redirect to c itself, which renders c (no
\* error); the redirects end at 404 only when c is excluded or is not in the
\* sequence.
C7_StayOnCurrent ==
    (req.op = "submit" /\ req.prev)
        => LET c == req.stim_id
               at == {i \in 1..Len(all_ids) : all_ids[i] = c}
               valid == at # {} /\ c \notin BAD_STIMULI
               none_before == \A i \in at : \A j \in ValidAt : j >= i
           IN  /\ (valid /\ none_before)
                      => /\ resp = Redirect(req.task, c)
                         /\ Landing(resp) = Page(req.task, c)
               /\ IsNotFound(Landing(resp)) => ~valid
               /\ resp.status = 302 /\ resp # Thanks

\* A backward submit stayed on its stimulus, every one before it being
\* excluded.
C7_Witness ==
    /\ req.op = "submit"
    /\ req.prev
    /\ Len(all_ids) >= 3
    /\ req.stim_id = all_ids[3]
    /\ all_ids[1] \in BAD_STIMULI
    /\ all_ids[2] \in BAD_STIMULI
    /\ resp = Redirect("count_subjects", all_ids[3])

\* A backward submit from an excluded stimulus with nothing valid around
\* ended at 404.
C7_WitnessNotFound ==
    /\ req.op = "submit"
    /\ req.prev
    /\ req.stim_id \in BAD_STIMULI
    /\ IsNotFound(Landing(resp))

\* The completed set of the last next_unfilled request.
Completed == filled_ids(results, req.annotator, req.scope)

\* Positions of the stimuli that are neither excluded nor completed.
UnfilledAt == {i \in ValidAt : all_ids[i] \notin Completed}

\* The place of position i in the cyclic order that starts at position s.
CyclicRank(i, s) == (i - s) % Len(all_ids)

\* C4: for a start identifier of the sequence, next_unfilled returns the
\* first stimulus, in the cyclic order that starts at the start index
\* (included) and wraps from the end to index 0 up to the start index
\* (excluded), that is neither excluded nor completed; the stimulus it
\* returns is never excluded and never completed.
C4_NextUnfilledCyclic ==
    (req.op = "next_unfilled" /\ req.task \in TASKS /\ req.annotator # "")
        => /\ resp.found
                  => /\ resp.stim_id \notin BAD_STIMULI
                     /\ resp.stim_id \notin Completed
                     /\ \E i \in 1..Len(all_ids) : all_ids[i] = resp.stim_id
           /\ \A s \in 1..Len(all_ids) :
                  (all_ids[s] = req.stim_id /\ UnfilledAt # {})
                      => LET first ==
                                 CHOOSE i \in UnfilledAt :
                                     \A j \in UnfilledAt :
                                         CyclicRank(i, s) <= CyclicRank(j, s)
                         IN  resp = Json(TRUE, all_ids[first], "json")

\* next_unfilled wrapped around: it returned a stimulus before the start,
\* the start and what follows it being completed or excluded.
C4_Witness ==
    /\ req.op = "next_unfilled"
    /\ Len(all_ids) >= 3
    /\ req.stim_id = all_ids[2]
    /\ all_ids[2] \in Completed
    /\ all_ids[3] \in Completed \cup BAD_STIMULI
    /\ resp = Json(TRUE, all_ids[1], "json")

\* C5, as claimed: whatever the start, the scope and the annotator
\* parameter, next_unfilled answers found = true when a stimulus is neither
\* excluded nor completed.
C5_FoundWheneverUnfilled ==
    (req.op = "next_unfilled" /\ req.task \in TASKS /\ UnfilledAt # {})
        => resp.found

\* C5, amended: with an annotator parameter that is not empty,
\* next_unfilled answers found = false exactly when every stimulus is
\* excluded or completed, whatever the start and the scope; with an empty
\* one it answers found = false and the error "No annotator specified".
C5_FoundUnlessNoAnnotator ==
    (req.op = "next_unfilled" /\ req.task \in TASKS)
        => IF req.annotator = ""
           THEN resp = Json(FALSE, None, "No annotator specified")
           ELSE resp.found <=> (UnfilledAt # {})

\* next_unfilled, started at an identifier that is in no sequence, found a
\* stimulus behind completed and excluded ones.
C5_Witness ==
    /\ req.op = "next_unfilled"
    /\ req.annotator # ""
    /\ \A i \in 1..Len(all_ids) : all_ids[i] # start_id_formatted(req.stim_id)
    /\ Len(all_ids) >= 3
    /\ all_ids[1] \in Completed
    /\ all_ids[2] \in BAD_STIMULI
    /\ resp = Json(TRUE, all_ids[3], "json")

\* next_unfilled answered found = false because every stimulus is excluded
\* or completed.
C5_WitnessNotFound ==
    /\ req.op = "next_unfilled"
    /\ req.annotator # ""
    /\ Len(all_ids) >= 2
    /\ Completed # {}
    /\ ~resp.found

\* Whether the render call of a stimulus, taken alone, passes the probe: it
\* returns a list that is not empty within the time check_stimulus allows.
PassesAlone(render) ==
    /\ render.returns
    /\ render.result = "frames"
    /\ render.elapsed <= check_timeout

\* Loop positions whose future the main thread is done with.
Probed ==
    {i \in 1..Len(futures) : ~(pc = "probe_wait" /\ i = Len(futures))}

\* C8, as claimed: the exclusion set the probe ends with holds exactly the
\* stimuli whose own render call fails or is too slow, whatever the other
\* render calls do and however many workers there are.
C8_OwnOutcomeOnly ==
    pc = "save"
        => BAD_STIMULI =
               {all_ids[i] : i \in {j \in 1..Len(futures) :
                                        ~PassesAlone(futures[j].render)}}

\* C9, as claimed: the start-up goes on until the server is ready, whatever
\* the render calls do: before that, a step of it is always possible.
C9_ProbeGoesOn == pc # "serving" => ENABLED NextProbe

FileLines ==
    {SubSeq(bad_file.lines[i], 1, Len(bad_file.lines[i]) - 1) :
         i \in 1..Len(bad_file.lines)}

\* The current process found bad_stimuli.txt when it started.
Loading == bad_file.exists /\ hist.probed # hist.starts

\* C11: a start that finds bad_stimuli.txt makes no check_stimulus call (so
\* no render call) and serves with the set of the file's lines as
\* BAD_STIMULI; a start that follows a start which probed makes none either
\* and serves with the set that start computed.
C11_LoadSkipsProbe ==
    /\ Loading
           => /\ pc \in {"start", "serving"}
              /\ hist.checks = 0
              /\ futures = << >>
    /\ (Loading /\ pc = "serving") => BAD_STIMULI = FileLines
    /\ (Loading /\ pc = "serving" /\ hist.probed # 0)
           => BAD_STIMULI = hist.computed

\* The second start serves with the set the first start computed by probing,
\* which holds some of the stimuli and not all.
C11_Witness ==
    /\ hist.starts = 2
    /\ hist.probed = 1
    /\ pc = "serving"
    /\ hist.checks = 0
    /\ Len(all_ids) >= 2
    /\ all_ids[1] \in BAD_STIMULI
    /\ all_ids[2] \notin BAD_STIMULI
    /\ BAD_STIMULI = hist.computed

\* Identifiers in canonical form: five digits.
IsCanonical(s) == Len(s) = id_width /\ \A i \in 1..Len(s) : IsDigit(s[i])

\* C12: for a set of canonical identifiers, load_bad_stimuli of what
\* save_bad_stimuli wrote is the set again; bad_stimuli.txt as written by
\* save_bad_stimuli holds one identifier per line, each identifier of the
\* set once, in ascending order of their numbers; and a start after the save
\* serves with the saved set.
C12_SaveLoadRoundTrip ==
    /\ (\A x \in BAD_STIMULI : IsCanonical(x))
           => LET f == save_bad_stimuli(BAD_STIMULI)
              IN  /\ load_bad_stimuli(f, {}) = BAD_STIMULI
                  /\ Len(f.lines) = Cardinality(BAD_STIMULI)
                  /\ \A x \in BAD_STIMULI :
                         \E i \in 1..Len(f.lines) : f.lines[i] = x \o <<"\n">>
                  /\ \A i \in 1..Len(f.lines) : \A j \in 1..Len(f.lines) :
                         i < j => IntOf(strip(f.lines[i]))
                                      < IntOf(strip(f.lines[j]))
    /\ (hist.probed # 0 /\ \A x \in hist.computed : IsCanonical(x))
           => /\ Len(bad_file.lines) = Cardinality(hist.computed)
              /\ \A x \in hist.computed :
                     \E i \in 1..Len(bad_file.lines) :
                         bad_file.lines[i] = x \o <<"\n">>
              /\ \A i \in 1..Len(bad_file.lines) :
                     \A j \in 1..Len(bad_file.lines) :
                         i < j => IntOf(strip(bad_file.lines[i]))
                                      < IntOf(strip(bad_file.lines[j]))
              /\ pc = "serving" => BAD_STIMULI = hist.computed

\* The probe excluded the last stimulus before the first one, the file it
\* saved lists the first one first, and the next start loaded both.
C12_Witness ==
    /\ hist.starts = 2
    /\ hist.probed = 1
    /\ pc = "serving"
    /\ Len(all_ids) >= 3
    /\ BAD_STIMULI = {all_ids[3], all_ids[1]}
    /\ bad_file.lines = <<all_ids[1] \o <<"\n">>, all_ids[3] \o <<"\n">> >>

\* C13: while the process serves, BAD_STIMULI is what it was when the
\* start-up (load or probe) ended: no step of a handler changes it, and no
\* request is handled before the start-up has ended.
C13_ReadOnlyAfterStartup ==
    [][/\ pc = "serving" => BAD_STIMULI' = BAD_STIMULI
       /\ (req' # req \/ resp' # resp \/ results' # results)
              => (pc = "serving" /\ pc' = "serving")]_vars

\* After a probe that excluded a stimulus, a submit was accepted and
\* next_unfilled answered.
C13_Witness ==
    /\ pc = "serving"
    /\ hist.probed = 1
    /\ BAD_STIMULI # {}
    /\ BAD_STIMULI = hist.computed
    /\ TotalRows(results) > 0
    /\ req.op = "next_unfilled"
    /\ resp.found

\* The <stim_id> of the submits accepted from annotator a.
Submitted(a) == {results[a][i] : i \in 1..Len(results[a])}

\* C14, as claimed: once a submit of s by A was accepted, a next_unfilled
\* query of scope "you" for A never returns s, and a query of scope "any"
\* never returns s whoever asks.
C14_ReflectsLatestWrites ==
    (req.op = "next_unfilled" /\ resp.found)
        => IF req.scope = "you"
           THEN resp.stim_id \notin Submitted(req.annotator)
           ELSE \A a \in Annotators : resp.stim_id \notin Submitted(a)

\* The stimuli the record of annotator a names: its rows that are numbers,
\* in canonical form.
Recorded(a) ==
    {int_05d[r] : r \in {x \in Submitted(a) : ~int_raises[x]}}

\* Every row of the record of annotator a is a number.
WellFormed(a) == \A r \in Submitted(a) : ~int_raises[r]

\* The records a query of the given annotator and scope reads.
RecordsRead(annotator, scope) ==
    IF scope = "you" THEN {annotator} ELSE Annotators

\* The result store with the records of the other annotators emptied.
OnlyOf(annotator) ==
    [a \in Annotators |-> IF a = annotator THEN results[a] ELSE << >>]

\* A next_unfilled request that got as far as reading records.
IsQuery == req.op = "next_unfilled" /\ req.task \in TASKS /\ req.annotator # ""

Canon(id) == IF id \in DOMAIN int_05d THEN int_05d[id] ELSE id

\* The text denotes a stimulus of the sequence.
Denotes(id) == \E i \in 1..Len(all_ids) : all_ids[i] = Canon(id)

\* The result store with every row in canonical form.
CanonStore ==
    [a \in Annotators |-> [i \in 1..Len(results[a]) |-> Canon(results[a][i])]]

\* C16, as claimed: a textual form that denotes a stimulus is treated as
\* its canonical form wherever it comes from: annotate, submit and
\* next_unfilled answer a path segment that denotes a stimulus of the
\* sequence as they answer its canonical form,
\* and the completed set is what it would be with canonical rows.
C16_NormalizedEverywhere ==
    /\ (req.op = "annotate" /\ req.task \in TASKS /\ Denotes(req.stim_id))
           => resp = annotate(req.task, Canon(req.stim_id))
    /\ (req.op = "submit" /\ Denotes(req.stim_id))
           => resp = submit_navigation(req.task, Canon(req.stim_id), req.prev)
    /\ IsQuery
           => /\ Denotes(req.stim_id)
                     => resp = next_unfilled(req.task, Canon(req.stim_id),
                                     req.annotator, req.scope)
              /\ Completed = filled_ids(CanonStore, req.annotator, req.scope)

\* C17: for an identifier that is not in the sequence, a forward step
\* returns what get_first_valid_stimulus returns, the first stimulus that is
\* not excluded, and a backward step the last one that is not excluded;
\* either is None only when every stimulus is excluded. A forward submit
\* from such an identifier redirects to the first, a backward one to the
\* last.
C17_StepFromOutside ==
    \A id \in UrlIds :
        (\A i \in 1..Len(all_ids) : all_ids[i] # id)
            => LET fwd == get_next_valid_stimulus("count_subjects", id, 1)
                   bwd == get_next_valid_stimulus("count_subjects", id, -1)
               IN  /\ fwd = get_first_valid_stimulus("count_subjects")
                   /\ fwd = IF ValidAt = {} THEN None
                            ELSE all_ids[Min(ValidAt)]
                   /\ bwd = IF ValidAt = {} THEN None
                            ELSE all_ids[Max(ValidAt)]
                   /\ (req.op = "submit" /\ req.stim_id = id /\ ValidAt # {})
                          => resp = Redirect(req.task,
                                        IF req.prev THEN all_ids[Max(ValidAt)]
                                        ELSE all_ids[Min(ValidAt)])

\* A backward submit from an identifier that is not in the sequence was
\* redirected to the last stimulus that is not excluded, the one after it
\* being excluded.
C17_Witness ==
    /\ req.op = "submit"
    /\ req.prev
    /\ req.stim_id = <<"x">>
    /\ Len(all_ids) >= 3
    /\ all_ids[3] \in BAD_STIMULI
    /\ all_ids[1] \notin BAD_STIMULI
    /\ resp = Redirect("count_subjects", all_ids[2])

\* The stimuli named by the rows of the record of annotator a that come
\* before its first row that is not a number.
RecordedBeforeBadRow(a) ==
    {int_05d[results[a][i]] :
         i \in {j \in 1..Len(results[a]) :
                    \A k \in 1..j : ~int_raises[results[a][k]]}}

\* The answer of next_unfilled is a normal one: found with a stimulus that
\* is neither excluded nor completed, or not found.
NormalAnswer ==
    /\ resp.status = 200
    /\ resp.kind = "json"
    /\ resp.found <=> (UnfilledAt # {})
    /\ resp.found => \E i \in UnfilledAt : resp.stim_id = all_ids[i]

C18_WitnessOtherRecord ==
    /\ IsQuery
    /\ req.scope = "any"
    /\ Len(all_ids) >= 2
    /\ results["ann1"] = << <<"x">> >>
    /\ results["ann2"] = <<all_ids[1]>>
    /\ BAD_STIMULI = {}
    /\ req.stim_id = all_ids[1]
    /\ resp = Json(TRUE, all_ids[2], "json")

\* The stimuli that are not excluded, in the order of the sequence.
ValidSeq == SelectSeq(all_ids, LAMBDA x : x \notin BAD_STIMULI)

\* s is the start of t.
IsPrefix(s, t) == Len(s) <= Len(t) /\ s = SubSeq(t, 1, Len(s))

\* C19: an annotator who starts at / and submits forward every page shown
\* sees the stimuli that are not excluded, each once, in the order of the
\* sequence: the pages submitted so far and the page or redirect at hand
\* are the start of that list; the submit of the last one, and no other,
\* is answered by thanks; every page can be submitted; and there are never
\* more submits than stimuli.
C19_ForwardTraversal ==
    /\ Len(results["ann1"]) <= Len(all_ids)
    /\ IsPrefix(results["ann1"], ValidSeq)
    /\ resp.kind \in {"page", "redirect"}
           => /\ IsPrefix(Append(results["ann1"], resp.stim_id), ValidSeq)
              /\ ENABLED (FollowRedirect \/ SubmitShown)
    /\ resp = Thanks <=> (req.op = "submit" /\ results["ann1"] = ValidSeq)
    /\ (req.op = "index" /\ ValidSeq = << >>) => IsNotFound(resp)

\* The annotator was shown the first and the third stimulus, the second
\* being excluded, and the submit of the third was answered by thanks.
C19_Witness ==
    /\ Len(all_ids) = 3
    /\ BAD_STIMULI \cap {all_ids[i] : i \in 1..3} = {all_ids[2]}
    /\ results["ann1"] = <<all_ids[1], all_ids[3]>>
    /\ req.op = "submit"
    /\ resp = Thanks

\* C20: a submit that is rejected (unknown task, empty annotator, missing
\* required field) is answered 404 or 400, not by a redirect, and leaves
\* every record as it is; a submit that is accepted adds its <stim_id> as
\* one row at the end of the record of its annotator, leaves the rows that
\* record had, and leaves the records of the other annotators; no other
\* request changes a record.
C20_SubmitWrites ==
    [][/\ req'.op = "submit_rejected"
              => /\ results' = results
                 /\ resp'.status \in {400, 404}
                 /\ resp'.kind \notin {"redirect", "thanks", "page"}
       /\ (req'.op \in {"submit", "submit_rejected"}
               /\ (req'.task \notin TASKS \/ req'.annotator = ""))
              => req'.op = "submit_rejected"
       /\ req'.op = "submit"
              => /\ results'[req'.annotator]
                        = Append(results[req'.annotator], req'.stim_id)
                 /\ \A b \in Annotators \ {req'.annotator} :
                        results'[b] = results[b]
                 /\ resp'.status = 302
       /\ req'.op \notin {"submit", "submit_rejected"}
              => results' = results]_vars

\* A submit of one annotator was accepted after a submit of the other: each
\* record holds its one row.
C20_Witness ==
    /\ req.op = "submit"
    /\ req.annotator = "ann2"
    /\ Len(all_ids) >= 2
    /\ results["ann1"] = <<all_ids[1]>>
    /\ results["ann2"] = <<req.stim_id>>

\* A submit without annotator name was rejected, the records holding rows.
C20_WitnessRejected ==
    /\ req.op = "submit_rejected"
    /\ req.annotator = ""
    /\ resp.status = 400
    /\ TotalRows(results) > 0

====
